---- MODULE Spec2Model ----
(***************************************************************************)
(* Resumable training orchestrator of sae_training:                        *)
(*   lm_runner.language_model_sae_runner,                                  *)
(*   train_sae_on_language_model.train_sae_group_on_language_model,        *)
(*   _train_step, _save_checkpoint, remove_excess_checkpoints,             *)
(*   resume_checkpoint, and the checkpoint discovery of                    *)
(*   config.LanguageModelSAERunnerConfig.                                  *)
(*                                                                         *)
(* One Python process runs at a time; its position is pc.  The checkpoint  *)
(* directory (disk) outlives a process, so a later process can resume from *)
(* what an earlier one left.  A termination signal is an external event:   *)
(* once the handlers of lines 153-154 are installed, interrupt_callback    *)
(* raises InterruptedException at whatever statement the process is at.    *)
(*                                                                         *)
(* Python's None is the empty sequence <<>>, a value v is <<v>>.           *)
(***************************************************************************)
EXTENDS Integers, Sequences, FiniteSets, TLC

\* ---------------------------------------------------------------- bounds
MaxTokens   == 2   \* total_training_tokens ranges over 1..MaxTokens
MaxBatch    == 2   \* train_batch_size ranges over 1..MaxBatch
MaxEvery    == 1   \* checkpoint_every ranges over 0..MaxEvery
MaxKeep     == 0   \* max_checkpoints ranges over None, 0..MaxKeep
MaxRuns     == 2   \* processes started one after another on the same directory
MaxSignals  == 2   \* termination signals delivered in all
NumSAEs     == 2   \* autoencoders in the group

SAEs == 1..NumSAEs

\* ------------------------------------------------ file names and the disk
SAVE_POSTFIX_SAE_GROUP == ""
SAVE_POSTFIX_LOG_FEATURE_SPARSITY == "_log_feature_sparsity"
SAVE_POSTFIX_ACTIVATION_STORE == "_activation_store"
SAVE_POSTFIX_TRAINING_STATE == "_trainining_state"

Postfixes == { SAVE_POSTFIX_SAE_GROUP, SAVE_POSTFIX_LOG_FEATURE_SPARSITY,
               SAVE_POSTFIX_ACTIVATION_STORE, SAVE_POSTFIX_TRAINING_STATE }

\* A checkpoint_name is either an int (the token count) or the string
\* f"final_{n_training_tokens}".
IntName(n)   == <<"int", n>>
FinalName(n) == <<"final", n>>

\* get_name(): the group's name; a second group sharing the directory has
\* another name.
get_name == "own"
OtherName == "other"

\* f"{checkpoint_path}/{checkpoint_name}_{get_name()}"
get_base_path(checkpoint_name) == [label |-> checkpoint_name, group |-> get_name]

\* f"{base_path}{postfix}.pt"
FilePath(base_path, postfix) ==
    [label |-> base_path.label, group |-> base_path.group, postfix |-> postfix]

\* c.split("_")[0]: the decimal digits of an int name, or the word "final".
LeadingPiece(f) ==
    IF f.label[1] = "int" THEN <<"digits", f.label[2]>> ELSE <<"word", 0>>

\* int(pieces[0]): raises ValueError unless the piece is a decimal number.
ParseInt(piece) ==
    IF piece[1] = "digits" THEN [exc |-> "none", val |-> piece[2]]
    ELSE [exc |-> "ValueError", val |-> 0]

\* full_path.startswith(self.get_base_path(checkpoint_name=steps))
StartsWithBasePath(f, steps) ==
    /\ f.group = get_base_path(IntName(steps)).group
    /\ f.label = get_base_path(IntName(steps)).label

Files(d) == DOMAIN d.files

\* os.listdir raises FileNotFoundError on a missing directory; int() raises
\* ValueError on the first file whose leading piece is not a number; else the
\* files of this group are grouped by their leading number.
get_checkpoints_by_step(d) ==
    IF ~d.exists THEN [exc |-> "FileNotFoundError", map |-> <<>>]
    ELSE IF \E f \in Files(d) : ParseInt(LeadingPiece(f)).exc # "none"
    THEN [exc |-> "ValueError", map |-> <<>>]
    ELSE LET own == { f \in Files(d) :
                        StartsWithBasePath(f, ParseInt(LeadingPiece(f)).val) }
             steps == { ParseInt(LeadingPiece(f)).val : f \in own }
         IN [exc |-> "none",
             map |-> [s \in steps |->
                        { f \in own : ParseInt(LeadingPiece(f)).val = s }]]

SetMax(S) == CHOOSE m \in S : \A x \in S : x <= m

get_resume_base_path(d) ==
    LET r == get_checkpoints_by_step(d) IN
    IF r.exc # "none" THEN [exc |-> r.exc, path |-> get_base_path(IntName(0))]
    ELSE IF Cardinality(DOMAIN r.map) = 0
    THEN [exc |-> "FileNotFoundError", path |-> get_base_path(IntName(0))]
    ELSE [exc |-> "none",
          path |-> get_base_path(IntName(SetMax(DOMAIN r.map)))]

\* "checkpoints, is_done = cfg.get_checkpoints_by_step()": the one dict that
\* get_checkpoints_by_step returns is unpacked into two names, which iterates
\* its keys: ValueError unless it has exactly two keys, and then checkpoints
\* is the first key, an int, and "checkpoints.keys()" raises AttributeError.
UnpackPair(mapped_to_steps) ==
    IF Cardinality(DOMAIN mapped_to_steps) # 2 THEN "ValueError" ELSE "none"

\* A retention pass that removes the oldest label on every call, whether or
\* not the directory is over the limit.
remove_oldest_checkpoint(c, d) ==
    LET r == get_checkpoints_by_step(d) IN
    IF r.exc # "none" THEN [exc |-> r.exc, disk |-> d]
    ELSE IF c.max_checkpoints = <<>> \/ DOMAIN r.map = {}
    THEN [exc |-> "none", disk |-> d]
    ELSE LET k == CHOOSE m \in DOMAIN r.map : \A x \in DOMAIN r.map : m <= x
         IN [exc |-> "none",
             disk |-> [d EXCEPT !.files =
                         [f \in DOMAIN d.files \ r.map[k] |-> d.files[f]]]]

\* A retention pass that takes the mapping as it is returned and removes
\* "sorted_keys[:-max_checkpoints]": every label but the max_checkpoints
\* largest (none when max_checkpoints is 0, "[:-0]" being empty).
remove_all_but_newest_checkpoints(c, d) ==
    LET r == get_checkpoints_by_step(d) IN
    IF r.exc # "none" THEN [exc |-> r.exc, disk |-> d]
    ELSE IF c.max_checkpoints = <<>> \/ c.max_checkpoints[1] = 0
    THEN [exc |-> "none", disk |-> d]
    ELSE LET keys == DOMAIN r.map
             removing == { k \in keys :
                             Cardinality({ x \in keys : x > k })
                                >= c.max_checkpoints[1] }
             gone == UNION { r.map[k] : k \in removing }
         IN [exc |-> "none",
             disk |-> [d EXCEPT !.files =
                         [f \in DOMAIN d.files \ gone |-> d.files[f]]]]

remove_excess_checkpoints(c, d) ==
    LET r == get_checkpoints_by_step(d) IN
    IF r.exc # "none" THEN [exc |-> r.exc, disk |-> d]
    ELSE IF UnpackPair(r.map) # "none"
    THEN [exc |-> UnpackPair(r.map), disk |-> d]
    ELSE [exc |-> "AttributeError", disk |-> d]


\* ------------------------------------------------------------- the state
VARIABLES
    cfg,                 \* LanguageModelSAERunnerConfig: the fields used here
    disk,                \* the run's checkpoint directory
    pc,                  \* the statement the process is at
    exc,                 \* the exception that reached the caller, or "none"
    entry,               \* how the process was started
    handlers,            \* interrupt_callback is installed (lines 153-154)
    training_run_state,  \* the argument of train_sae_group_on_language_model
    n_training_steps,
    n_training_tokens,
    train_contexts,      \* one context per autoencoder
    sae_group,           \* one autoencoder per entry
    activation_store,    \* batches the store has handed out
    rng,                 \* state of the process-wide random generators
    sae_i,               \* the autoencoder the for-loop of line 164 is at
    save,                \* the _save_checkpoint call in progress, or <<>>
    checkpoint_paths,    \* the list of line 144
    returned,            \* a TrainSAEGroupOutput was returned
    hist                 \* history of this process, read by the properties only

vars == << cfg, disk, pc, exc, entry, handlers, training_run_state,
           n_training_steps, n_training_tokens, train_contexts, sae_group,
           activation_store, rng, sae_i, save, checkpoint_paths, returned,
           hist >>

None == <<>>
Some(v) == <<v>>

\* The four process-wide generators, each by the number of draws made from it
\* since the process started.
SeededGenerators == [torch |-> 0, torch_cuda |-> 0, numpy |-> 0, random |-> 0]

\* SAEGroup as LMSparseAutoencoderSessionloader builds it: untrained weights,
\* decoder biases not initialised yet.
FreshSAEGroup == [i \in SAEs |-> [updates |-> 0, b_dec_inits |-> 0]]

\* _build_train_context: zeroed statistics, a new Adam and a new scheduler.
_build_train_context == [optimizer |-> 0, scheduler |-> 0]

\* What one file of a bundle holds.
Content(sg, st, rs) ==
    [sae_group |-> sg, activation_store |-> st, training_run_state |-> rs]

WriteFile(d, path, content) ==
    [exists |-> TRUE, files |-> (path :> content) @@ d.files]

MissingDisk == [exists |-> FALSE, files |-> <<>>]

\* A complete bundle that a group of another name left in the directory
\* ("there might be other saes here, ignore them").
OtherBundle(n) ==
    [f \in { [label |-> IntName(n), group |-> OtherName, postfix |-> p] :
               p \in Postfixes } |-> Content(<<>>, 0, None)]

Configs ==
    [ total_training_tokens : 1..MaxTokens,
      train_batch_size      : 1..MaxBatch,
      checkpoint_every      : 0..MaxEvery,
      max_checkpoints       : {None} \cup { Some(n) : n \in 0..MaxKeep },
      resume                : {FALSE} ]

FreshHist ==
    [ runs        |-> 0,      \* processes started so far
      requested   |-> FALSE,  \* cfg.resume was set when the process started
      had_bundle  |-> FALSE,  \* a file of this group was on disk at that time
      interrupted |-> FALSE,  \* the except clause of line 228 was entered
      failure     |-> "none", \* the exception a statement of the loop raised
      signals     |-> 0,      \* signals delivered so far, to any process
      delivered   |-> 0,      \* signals delivered to this process
      saves       |-> <<>>,   \* the saves whose four files were written
      stored      |-> None,   \* the run state of the newest bundle on disk
                              \* when the process started, if it is complete
      loaded      |-> None ]  \* what train_sae_group_on_language_model
                              \* started from, once line 144 is reached

Init ==
    /\ cfg \in Configs
    /\ disk \in { MissingDisk, [exists |-> TRUE, files |-> OtherBundle(1)] }
    /\ pc = "idle"
    /\ exc = "none"
    /\ entry = "none"
    /\ handlers = FALSE
    /\ training_run_state = None
    /\ n_training_steps = 0
    /\ n_training_tokens = 0
    /\ train_contexts = <<>>
    /\ sae_group = FreshSAEGroup
    /\ activation_store = 0
    /\ rng = SeededGenerators
    /\ sae_i = 0
    /\ save = None
    /\ checkpoint_paths = <<>>
    /\ returned = FALSE
    /\ hist = FreshHist


\* ------------------------------------------------- starting a process
Raise(e) == pc' = "raised" /\ exc' = e

OwnFiles(d) == { f \in Files(d) : f.group = get_name }

\* All four files of the bundle at base_path are on disk.
Complete(base_path, d) ==
    \A p \in Postfixes : FilePath(base_path, p) \in Files(d)

\* The run state pickled in the bundle with the largest integer label, when
\* that bundle is complete.
StoredState(d) ==
    LET ints == { f.label[2] : f \in { g \in OwnFiles(d) : g.label[1] = "int" } }
        base == get_base_path(IntName(SetMax(ints)))
    IN IF ints # {} /\ Complete(base, d)
       THEN d.files[FilePath(base, SAVE_POSTFIX_TRAINING_STATE)].training_run_state
       ELSE None

\* A new Python process on the same checkpoint directory (the same wandb_id):
\* a fresh model group, a fresh activation store, freshly seeded generators.
\* The caller sets cfg.resume and either calls language_model_sae_runner or
\* calls resume_checkpoint / train_sae_group_on_language_model itself.
Start(e, r) ==
    /\ pc \in {"idle", "done", "raised"}
    /\ hist.runs < MaxRuns
    /\ cfg' = [cfg EXCEPT !.resume = r]
    /\ pc' = e
    /\ entry' = e
    /\ exc' = "none"
    /\ handlers' = FALSE
    /\ training_run_state' = None
    /\ n_training_steps' = 0
    /\ n_training_tokens' = 0
    /\ train_contexts' = <<>>
    /\ sae_group' = FreshSAEGroup
    /\ activation_store' = 0
    /\ rng' = SeededGenerators
    /\ sae_i' = 0
    /\ save' = None
    /\ checkpoint_paths' = <<>>
    /\ returned' = FALSE
    /\ hist' = [FreshHist EXCEPT !.runs = hist.runs + 1,
                                 !.signals = hist.signals,
                                 !.requested = r,
                                 !.had_bundle = OwnFiles(disk) # {},
                                 !.stored = StoredState(disk)]
    /\ UNCHANGED disk

\* resume_checkpoint(base_path, cfg, model, batch_size): loads the group, the
\* activation store and the pickled run state; a missing file is a
\* FileNotFoundError.  The optimizer and scheduler states are loaded into
\* freshly built ones, which keeps their step counts.
resume_checkpoint(base_path, d) ==
    LET fg == FilePath(base_path, SAVE_POSTFIX_SAE_GROUP)
        fa == FilePath(base_path, SAVE_POSTFIX_ACTIVATION_STORE)
        ft == FilePath(base_path, SAVE_POSTFIX_TRAINING_STATE)
    IN IF {fg, fa, ft} \subseteq Files(d)
       THEN [exc |-> "none",
             sae_group |-> d.files[fg].sae_group,
             activation_store |-> d.files[fa].activation_store,
             training_run_state |-> d.files[ft].training_run_state]
       ELSE [exc |-> "FileNotFoundError",
             sae_group |-> FreshSAEGroup,
             activation_store |-> 0,
             training_run_state |-> None]

\* The parameters of resume_checkpoint that have no default.
ResumeCheckpointRequired == {"base_path", "cfg", "model", "batch_size"}

\* The keyword arguments language_model_sae_runner passes (lines 20-24).
RunnerResumeArgs == {"base_path", "cfg", "model"}

\* A Python call: TypeError when a required parameter is not passed.
CallResumeCheckpoint(args, base_path, d) ==
    IF ResumeCheckpointRequired \subseteq args
    THEN resume_checkpoint(base_path, d)
    ELSE [exc |-> "TypeError",
          sae_group |-> FreshSAEGroup,
          activation_store |-> 0,
          training_run_state |-> None]

\* The handler with the wrong exception class named: a missing checkpoint
\* is then not caught.
RunnerCatchesValueError(e) == e = "ValueError"

\* "except FileNotFoundError" of line 25.
RunnerCatches(e) == e = "FileNotFoundError"

\* language_model_sae_runner, lines 15-58, up to the call of
\* train_sae_group_on_language_model.
LoadSession ==
    /\ training_run_state' = None
    /\ sae_group' = FreshSAEGroup
    /\ activation_store' = 0

language_model_sae_runner ==
    /\ pc = "runner"
    /\ LET b == get_resume_base_path(disk)
           l == CallResumeCheckpoint(RunnerResumeArgs, b.path, disk)
           e == IF b.exc # "none" THEN b.exc ELSE l.exc
       IN IF ~cfg.resume
          THEN /\ LoadSession
               /\ pc' = "train"
               /\ UNCHANGED << cfg, exc >>
          ELSE IF e = "none"
          THEN /\ training_run_state' = l.training_run_state
               /\ sae_group' = l.sae_group
               /\ activation_store' = l.activation_store
               /\ pc' = "train"
               /\ UNCHANGED << cfg, exc >>
          ELSE IF RunnerCatches(e)
          THEN /\ cfg' = [cfg EXCEPT !.resume = FALSE]
               /\ LoadSession
               /\ pc' = "train"
               /\ UNCHANGED exc
          ELSE /\ Raise(e)
               /\ UNCHANGED << cfg, training_run_state, sae_group,
                               activation_store >>
    /\ UNCHANGED << disk, entry, handlers, n_training_steps, n_training_tokens,
                    train_contexts, rng, sae_i, save, checkpoint_paths,
                    returned, hist >>

\* A caller that resumes by hand: resume_checkpoint with every argument, from
\* the path get_resume_base_path names, or no run state at all.  (With no run
\* state and cfg.resume unset this is the runner's fresh branch.)
DirectCall(with_state) ==
    /\ pc = "direct"
    /\ with_state \/ cfg.resume
    /\ LET b == get_resume_base_path(disk)
           l == CallResumeCheckpoint(ResumeCheckpointRequired, b.path, disk)
           e == IF b.exc # "none" THEN b.exc ELSE l.exc
       IN IF ~with_state
          THEN /\ LoadSession
               /\ pc' = "train"
               /\ UNCHANGED exc
          ELSE IF e = "none"
          THEN /\ training_run_state' = l.training_run_state
               /\ sae_group' = l.sae_group
               /\ activation_store' = l.activation_store
               /\ pc' = "train"
               /\ UNCHANGED exc
          ELSE /\ Raise(e)
               /\ UNCHANGED << training_run_state, sae_group,
                               activation_store >>
    /\ UNCHANGED << cfg, disk, entry, handlers, n_training_steps,
                    n_training_tokens, train_contexts, rng, sae_i, save,
                    checkpoint_paths, returned, hist >>


\* ------------------------------- train_sae_group_on_language_model
\* Lines 116-154: counters, contexts, generator state or decoder biases, the
\* empty checkpoint_paths, and the two signal handlers.
\* A restore of the torch generator alone.
set_torch_state_only(rs) == [rng EXCEPT !.torch = rs.torch_state]

\* SAETrainingRunState.set_random_state, lines 69-73.
set_random_state(rs) ==
    [ torch      |-> rs.torch_state,
      torch_cuda |-> rs.torch_cuda_state,
      numpy      |-> rs.numpy_state,
      random     |-> rs.random_state ]

_init_sae_group_b_decs(group) ==
    [i \in SAEs |-> [group[i] EXCEPT !.b_dec_inits = @ + 1]]

TrainInit ==
    /\ pc = "train"
    /\ LET ctxs == IF training_run_state = None
                   THEN [i \in SAEs |-> _build_train_context]
                   ELSE training_run_state[1].train_contexts
           toks == IF training_run_state = None THEN 0
                   ELSE training_run_state[1].n_training_tokens
           stps == IF training_run_state = None THEN 0
                   ELSE training_run_state[1].n_training_steps
       IN /\ train_contexts' = ctxs
          /\ n_training_tokens' = toks
          /\ n_training_steps' = stps
          /\ IF cfg.resume /\ training_run_state = None
             THEN \* training_run_state.set_random_state() on None
                  /\ Raise("AttributeError")
                  /\ UNCHANGED << rng, sae_group, handlers, hist >>
             ELSE /\ IF cfg.resume
                     THEN /\ rng' = set_random_state(training_run_state[1])
                          /\ UNCHANGED sae_group
                     ELSE /\ sae_group' = _init_sae_group_b_decs(sae_group)
                          /\ UNCHANGED rng
                  /\ handlers' = TRUE
                  /\ pc' = "while"
                  /\ hist' = [hist EXCEPT !.loaded =
                                Some([ n_training_steps  |-> stps,
                                       n_training_tokens |-> toks,
                                       train_contexts    |-> ctxs,
                                       sae_group         |-> sae_group',
                                       fresh |-> training_run_state = None ])]
                  /\ UNCHANGED exc
    /\ checkpoint_paths' = <<>>
    /\ UNCHANGED << cfg, disk, entry, training_run_state, activation_store,
                    sae_i, save, returned >>

\* _save_checkpoint is entered: base_path from the checkpoint name (line 550).
BeginSave(kind, name) ==
    /\ save' = Some([kind |-> kind, base_path |-> get_base_path(name)])
    /\ pc' = "save_model"

\* Line 156, and line 243 when the budget is used up.
While ==
    /\ pc = "while"
    /\ IF n_training_tokens < cfg.total_training_tokens
       THEN pc' = "next_batch" /\ UNCHANGED save
       ELSE BeginSave("final", FinalName(n_training_tokens))
    /\ UNCHANGED << cfg, disk, exc, entry, handlers, training_run_state,
                    n_training_steps, n_training_tokens, train_contexts,
                    sae_group, activation_store, rng, sae_i, checkpoint_paths,
                    returned, hist >>

\* ActivationsStore.next_batch: hands out the next batch of the shuffled
\* buffer, which advances the store and draws from the generators.
next_batch(store, gen) ==
    [ activation_store |-> store + 1,
      rng |-> [ torch      |-> gen.torch + 1,
                torch_cuda |-> gen.torch_cuda + 1,
                numpy      |-> gen.numpy + 1,
                random     |-> gen.random + 1 ] ]

\* Line 158.
NextBatch ==
    /\ pc = "next_batch"
    /\ activation_store' = next_batch(activation_store, rng).activation_store
    /\ rng' = next_batch(activation_store, rng).rng
    /\ pc' = "add_tokens"
    /\ UNCHANGED << cfg, disk, exc, entry, handlers, training_run_state,
                    n_training_steps, n_training_tokens, train_contexts,
                    sae_group, sae_i, save, checkpoint_paths, returned, hist >>

\* Line 159, and the for-loop of line 164 starts.
AddTokens ==
    /\ pc = "add_tokens"
    /\ n_training_tokens' = n_training_tokens + cfg.train_batch_size
    /\ sae_i' = 1
    /\ pc' = "opt"
    /\ UNCHANGED << cfg, disk, exc, entry, handlers, training_run_state,
                    n_training_steps, train_contexts, sae_group,
                    activation_store, rng, save, checkpoint_paths, returned,
                    hist >>

\* _train_step up to ctx.optimizer.step() (lines 364-427) for autoencoder
\* sae_i: the weights and the optimizer state move by one update.
TrainStepOptimizer ==
    /\ pc = "opt"
    /\ sae_group' = [sae_group EXCEPT ![sae_i].updates = @ + 1]
    /\ train_contexts' = [train_contexts EXCEPT ![sae_i].optimizer = @ + 1]
    /\ pc' = "sched"
    /\ UNCHANGED << cfg, disk, exc, entry, handlers, training_run_state,
                    n_training_steps, n_training_tokens, activation_store,
                    rng, sae_i, save, checkpoint_paths, returned, hist >>

\* ctx.scheduler.step() (line 428), then the next autoencoder of the group.
TrainStepScheduler ==
    /\ pc = "sched"
    /\ train_contexts' = [train_contexts EXCEPT ![sae_i].scheduler = @ + 1]
    /\ IF sae_i < NumSAEs
       THEN sae_i' = sae_i + 1 /\ pc' = "opt"
       ELSE sae_i' = 0 /\ pc' = "ckpt"
    /\ UNCHANGED << cfg, disk, exc, entry, handlers, training_run_state,
                    n_training_steps, n_training_tokens, sae_group,
                    activation_store, rng, save, checkpoint_paths, returned,
                    hist >>

\* "n_training_steps % sae_group.cfg.checkpoint_every == 0" (line 211):
\* Python's % raises ZeroDivisionError on a zero divisor.
PyMod(a, b) ==
    IF b = 0 THEN [exc |-> "ZeroDivisionError", val |-> 0]
    ELSE [exc |-> "none", val |-> a % b]

\* A handler for every exception.
LoopCatchesAll(e) == TRUE

\* "except (KeyboardInterrupt, InterruptedException)" of line 228.
LoopCatches(e) == e \in {"KeyboardInterrupt", "InterruptedException"}

\* An exception raised by a statement inside the try block of lines 152-227:
\* the except clause of line 228 takes it or it leaves the function.
Thrown(e) ==
    /\ IF LoopCatches(e) THEN pc' = "except" /\ UNCHANGED exc ELSE Raise(e)
    /\ hist' = [hist EXCEPT !.failure = e]

\* What a collaborator of the loop can raise.
ExternalFailures == {"RuntimeError"}

\* next_batch (line 158) or _train_step (line 168) fails: the activation
\* source is exhausted or unreachable, the device runs out of memory, ...
Fails(e) ==
    /\ pc \in {"next_batch", "opt"}
    /\ Thrown(e)
    /\ UNCHANGED << cfg, disk, entry, handlers, training_run_state,
                    n_training_steps, n_training_tokens, train_contexts,
                    sae_group, activation_store, rng, sae_i, save,
                    checkpoint_paths, returned >>

\* Line 223, the end of an iteration: back to the test of line 156.
Incr ==
    /\ n_training_steps' = n_training_steps + 1
    /\ pc' = "while"

\* Lines 210-223: the periodic save when one is due, else the iteration ends.
CheckpointCheck ==
    /\ pc = "ckpt"
    /\ LET m == PyMod(n_training_steps, cfg.checkpoint_every)
       IN IF m.exc # "none"
          THEN /\ Thrown(m.exc)
               /\ UNCHANGED << save, n_training_steps >>
          ELSE IF m.val = 0
          THEN /\ BeginSave("periodic", IntName(n_training_tokens))
               /\ UNCHANGED << exc, n_training_steps, hist >>
          ELSE Incr /\ UNCHANGED << save, exc, hist >>
    /\ UNCHANGED << cfg, disk, entry, handlers, training_run_state,
                    n_training_tokens, train_contexts, sae_group,
                    activation_store, rng, sae_i, checkpoint_paths, returned >>

\* Lines 228-238: the handler saves under the current token count.
Except ==
    /\ pc = "except"
    /\ BeginSave("interrupt", IntName(n_training_tokens))
    /\ UNCHANGED << cfg, disk, exc, entry, handlers, training_run_state,
                    n_training_steps, n_training_tokens, train_contexts,
                    sae_group, activation_store, rng, sae_i, checkpoint_paths,
                    returned, hist >>


\* ------------------------------------------------------ _save_checkpoint
\* SAEGroup.save_model(path), line 556: writes the weights file, creating the
\* run directory when it is not there yet.
save_model(d, path, group) == WriteFile(d, path, Content(group, 0, None))

SaveModel ==
    /\ pc = "save_model"
    /\ disk' = save_model(disk, FilePath(save[1].base_path, SAVE_POSTFIX_SAE_GROUP),
                          sae_group)
    /\ pc' = "save_sparsity"
    /\ UNCHANGED << cfg, exc, entry, handlers, training_run_state,
                    n_training_steps, n_training_tokens, train_contexts,
                    sae_group, activation_store, rng, sae_i, save,
                    checkpoint_paths, returned, hist >>

\* Lines 557-561: torch.save of the log-sparsity tensors.
SaveSparsity ==
    /\ pc = "save_sparsity"
    /\ disk' = WriteFile(disk,
                  FilePath(save[1].base_path, SAVE_POSTFIX_LOG_FEATURE_SPARSITY),
                  Content(<<>>, 0, None))
    /\ pc' = "save_store"
    /\ UNCHANGED << cfg, exc, entry, handlers, training_run_state,
                    n_training_steps, n_training_tokens, train_contexts,
                    sae_group, activation_store, rng, sae_i, save,
                    checkpoint_paths, returned, hist >>

\* Lines 563-564: activation_store.save.
SaveStore ==
    /\ pc = "save_store"
    /\ disk' = WriteFile(disk,
                  FilePath(save[1].base_path, SAVE_POSTFIX_ACTIVATION_STORE),
                  Content(<<>>, activation_store, None))
    /\ pc' = "save_state"
    /\ UNCHANGED << cfg, exc, entry, handlers, training_run_state,
                    n_training_steps, n_training_tokens, train_contexts,
                    sae_group, activation_store, rng, sae_i, save,
                    checkpoint_paths, returned, hist >>

\* SAETrainingRunState(...) of lines 566-570: the contexts and counters that
\* were passed, and (__post_init__) the generator states as they are now.
SAETrainingRunState(ctxs, steps, tokens) ==
    [ train_contexts    |-> ctxs,
      n_training_steps  |-> steps,
      n_training_tokens |-> tokens,
      torch_state       |-> rng.torch,
      torch_cuda_state  |-> rng.torch_cuda,
      numpy_state       |-> rng.numpy,
      random_state      |-> rng.random ]

\* Lines 566-574: pickle.dump of the run state, the last of the four files.
SaveState ==
    /\ pc = "save_state"
    /\ disk' = WriteFile(disk,
                  FilePath(save[1].base_path, SAVE_POSTFIX_TRAINING_STATE),
                  Content(<<>>, 0,
                          Some(SAETrainingRunState(train_contexts,
                                                   n_training_steps,
                                                   n_training_tokens))))
    /\ hist' = [hist EXCEPT !.saves =
                  Append(@, [ kind  |-> save[1].kind,
                              label |-> save[1].base_path.label ])]
    /\ pc' = "retention"
    /\ UNCHANGED << cfg, exc, entry, handlers, training_run_state,
                    n_training_steps, n_training_tokens, train_contexts,
                    sae_group, activation_store, rng, sae_i, save,
                    checkpoint_paths, returned >>

\* Line 611, the return of lines 612-618, and what the caller does with it:
\* the iteration ends after a periodic save (line 223), the handler re-raises
\* (line 240), and after the terminal save the function appends the path and
\* returns (lines 252-258).  An exception of the retention pass is caught by
\* neither: it leaves train_sae_group_on_language_model.
Retention ==
    /\ pc = "retention"
    /\ LET r == remove_excess_checkpoints(cfg, disk)
       IN /\ disk' = r.disk
          /\ IF r.exc # "none" /\ save[1].kind = "periodic"
             THEN /\ Thrown(r.exc)
                  /\ UNCHANGED << checkpoint_paths, returned,
                                  n_training_steps >>
             ELSE IF r.exc # "none"
             THEN /\ Raise(r.exc)
                  /\ UNCHANGED << checkpoint_paths, returned,
                                  n_training_steps, hist >>
             ELSE IF save[1].kind = "periodic"
             THEN /\ Incr
                  /\ UNCHANGED << exc, checkpoint_paths, returned, hist >>
             ELSE IF save[1].kind = "interrupt"
             THEN /\ Raise("InterruptedException")
                  /\ UNCHANGED << checkpoint_paths, returned,
                                  n_training_steps, hist >>
             ELSE /\ checkpoint_paths' =
                        Append(checkpoint_paths,
                               FilePath(save[1].base_path, SAVE_POSTFIX_SAE_GROUP))
                  /\ returned' = TRUE
                  /\ pc' = "done"
                  /\ UNCHANGED << exc, n_training_steps, hist >>
    /\ save' = None
    /\ UNCHANGED << cfg, entry, handlers, training_run_state,
                    n_training_tokens, train_contexts, sae_group,
                    activation_store, rng, sae_i >>

\* ------------------------------------------------------------- the signal
SavePcs == {"save_model", "save_sparsity", "save_store", "save_state",
            "retention"}

\* A try block that reaches down to the terminal save of lines 243-251.
InTryWithFinalSave ==
    \/ pc \in {"while", "next_batch", "add_tokens", "opt", "sched", "ckpt"}
    \/ pc \in SavePcs /\ save[1].kind \in {"periodic", "final"}

\* The statements inside the try block of lines 152-227.
InTry ==
    \/ pc \in {"while", "next_batch", "add_tokens", "opt", "sched", "ckpt"}
    \/ pc \in SavePcs /\ save[1].kind = "periodic"

\* SIGINT or SIGTERM while interrupt_callback is installed: the callback
\* raises InterruptedException in the main thread, at the statement being
\* executed.  Inside the try block the except clause of line 228 takes it;
\* inside that clause, or in the terminal save after the loop, nothing does
\* and it leaves the function.
Signal ==
    /\ handlers
    /\ hist.signals < MaxSignals
    /\ pc \in {"while", "next_batch", "add_tokens", "opt", "sched", "ckpt",
               "except"} \cup SavePcs
    /\ IF InTry /\ LoopCatches("InterruptedException")
       THEN /\ pc' = "except"
            /\ hist' = [hist EXCEPT !.signals = @ + 1,
                                    !.delivered = @ + 1,
                                    !.interrupted = TRUE]
            /\ UNCHANGED exc
       ELSE /\ Raise("InterruptedException")
            /\ hist' = [hist EXCEPT !.signals = @ + 1,
                                    !.delivered = @ + 1]
    /\ save' = None
    /\ UNCHANGED << cfg, disk, entry, handlers, training_run_state,
                    n_training_steps, n_training_tokens, train_contexts,
                    sae_group, activation_store, rng, sae_i, checkpoint_paths,
                    returned >>

\* ------------------------------------------------------ the specification
Next ==
    \/ \E e \in {"runner", "direct"}, r \in BOOLEAN : Start(e, r)
    \/ language_model_sae_runner
    \/ \E w \in BOOLEAN : DirectCall(w)
    \/ TrainInit
    \/ While
    \/ NextBatch
    \/ AddTokens
    \/ TrainStepOptimizer
    \/ TrainStepScheduler
    \/ \E e \in ExternalFailures : Fails(e)
    \/ CheckpointCheck
    \/ Except
    \/ SaveModel
    \/ SaveSparsity
    \/ SaveStore
    \/ SaveState
    \/ Retention
    \/ Signal

Spec == Init /\ [][Next]_vars


\* ------------------------------------------------------------ properties
Terminal == pc \in {"done", "raised"}

T == cfg.total_training_tokens
B == cfg.train_batch_size

\* train_sae_group_on_language_model was entered without a run state and
\* without cfg.resume, and got past its initialisation.
FreshRun ==
    /\ hist.loaded # None
    /\ hist.loaded[1].fresh
    /\ ~cfg.resume

Last(q) == q[Len(q)]

\* No signal was delivered to the process and no collaborator failed.
Undisturbed == hist.delivered = 0 /\ hist.failure \notin ExternalFailures

SavesOfKind(k) == { n \in 1..Len(hist.saves) : hist.saves[n].kind = k }

\* The run state pickled under an integer label, when that file is on disk.
StateFile(n) == FilePath(get_base_path(IntName(n)), SAVE_POSTFIX_TRAINING_STATE)

\* Every context of a run state has had exactly k optimizer updates and k
\* scheduler advances.
UpdatesAre(rs, k) ==
    \A i \in SAEs : /\ rs.train_contexts[i].optimizer = k
                    /\ rs.train_contexts[i].scheduler = k

\* C1: a fresh, uninterrupted run with batch size dividing the budget and
\* checkpoint_every > 0 ends in DONE after exactly T/B iterations, with
\* n_training_steps = T/B and n_training_tokens = T, and the last checkpoint
\* it saved is the terminal one, labelled with T.
C1_FreshRunReachesDone ==
    (Terminal /\ FreshRun /\ Undisturbed
        /\ cfg.checkpoint_every > 0 /\ T % B = 0)
    => /\ pc = "done"
       /\ n_training_steps = T \div B
       /\ n_training_tokens = T
       /\ hist.saves # <<>>
       /\ Last(hist.saves) = [kind |-> "final", label |-> FinalName(T)]

\* C2: with checkpoint_every = 0 a fresh, uninterrupted run ends in DONE
\* without raising and saves no periodic checkpoint.
C2_NoPeriodicCheckpointWhenEveryIsZero ==
    (Terminal /\ FreshRun /\ Undisturbed /\ cfg.checkpoint_every = 0)
    => /\ pc = "done"
       /\ exc = "none"
       /\ SavesOfKind("periodic") = {}

\* C3: a run whose loop was interrupted by a termination signal (one signal,
\* delivered inside the loop) ends with exactly one checkpoint saved by the
\* handler, labelled with the current n_training_tokens, no terminal save,
\* no TrainSAEGroupOutput, and the interruption itself as the exception that
\* reaches the caller.
C3_InterruptSavesOnceThenPropagates ==
    (Terminal /\ hist.interrupted /\ hist.delivered = 1)
    => /\ exc = "InterruptedException"
       /\ ~returned
       /\ Cardinality(SavesOfKind("interrupt")) = 1
       /\ \A n \in SavesOfKind("interrupt") :
             hist.saves[n].label = IntName(n_training_tokens)
       /\ SavesOfKind("final") = {}

\* C4: the run state that the interrupt checkpoint has just written has
\* every model at the same number k of optimizer updates and scheduler
\* advances, and n_training_tokens = batch_size * k.
C4_InterruptSavesWholeBatches ==
    (pc = "retention" /\ save[1].kind = "interrupt")
    => LET rs == disk.files[StateFile(n_training_tokens)].training_run_state[1]
       IN \E k \in 0..(MaxTokens + MaxBatch) :
             /\ UpdatesAre(rs, k)
             /\ rs.n_training_tokens = B * k

\* The generator states captured in a run state are all k draws in.
CapturedAre(rs, k) ==
    /\ rs.torch_state = k
    /\ rs.torch_cuda_state = k
    /\ rs.numpy_state = k
    /\ rs.random_state = k

\* A run state as a signal caught at the loop head leaves it after k
\* completed steps: k batches drawn, k updates everywhere, k * B tokens.
BoundaryState(rs) ==
    /\ rs.n_training_tokens = rs.n_training_steps * B
    /\ UpdatesAre(rs, rs.n_training_steps)
    /\ CapturedAre(rs, rs.n_training_steps)

\* C5: a process that resumes from the checkpoint of an interruption after k
\* completed steps and is not interrupted itself ends in DONE in the final
\* state of the uninterrupted run: T/B steps, T tokens, T/B optimizer and
\* scheduler updates of every model, the generators after T/B batches.
C5_ResumeEndsLikeUninterruptedRun ==
    (Terminal /\ hist.requested /\ Undisturbed /\ T % B = 0
        /\ hist.stored # None /\ BoundaryState(hist.stored[1])
        /\ (entry = "runner" \/ training_run_state # None))
    => /\ pc = "done"
       /\ n_training_steps = T \div B
       /\ n_training_tokens = T
       /\ \A i \in SAEs : /\ train_contexts[i].optimizer = T \div B
                          /\ train_contexts[i].scheduler = T \div B
       /\ rng = [torch |-> T \div B, torch_cuda |-> T \div B,
                 numpy |-> T \div B, random |-> T \div B]

\* The labels that get_checkpoints_by_step (and with it get_resume_base_path
\* and remove_excess_checkpoints) takes for checkpoints.
VisibleLabels(d) ==
    IF get_checkpoints_by_step(d).exc = "none"
    THEN DOMAIN get_checkpoints_by_step(d).map
    ELSE {}

\* C6: whenever no process is running (also after a signal ended one in the
\* middle of _save_checkpoint), every label that checkpoint discovery takes
\* for a checkpoint has all four files of its bundle.
C6_VisibleCheckpointsAreComplete ==
    pc \in {"idle", "done", "raised"}
    => \A n \in VisibleLabels(disk) : Complete(get_base_path(IntName(n)), disk)

\* C7: the retention pass at the end of _save_checkpoint never raises: a
\* save whose four files are written goes on to its caller, which is left
\* with an exception only when the interrupt handler re-raises.
C7_RetentionNeverRaises ==
    [][(pc = "retention" /\ pc' = "raised" /\ hist'.signals = hist.signals)
          => (save[1].kind = "interrupt" /\ exc' = "InterruptedException")]_vars

\* Every file of this group on disk belongs to a bundle with all four files.
AllBundlesComplete(d) ==
    \A f \in OwnFiles(d) : Complete([label |-> f.label, group |-> f.group], d)

\* C8: whenever a process can be started and the bundles of this group on
\* disk are whole, get_resume_base_path raises FileNotFoundError if there is
\* none, and else raises nothing and returns the base path of the largest
\* label present.
C8_ResumePointIsMaxLabel ==
    (pc \in {"idle", "done", "raised", "runner", "direct"}
        /\ AllBundlesComplete(disk))
    => LET r == get_resume_base_path(disk) IN
       IF OwnFiles(disk) = {}
       THEN r.exc = "FileNotFoundError"
       ELSE /\ r.exc = "none"
            /\ \E f \in OwnFiles(disk) : r.path.label = f.label
            /\ \A f \in OwnFiles(disk) : f.label[2] <= r.path.label[2]

\* C9: language_model_sae_runner called with resume requested while no file
\* of this group is in the run directory does not abort: it switches
\* cfg.resume off and trains from a fresh initialisation (no run state,
\* fresh contexts, counters at 0, decoder biases initialised once).
C9_ResumeWithoutCheckpointFallsBack ==
    (entry = "runner" /\ hist.requested /\ ~hist.had_bundle)
    => /\ pc # "runner" => (~cfg.resume /\ training_run_state = None)
       /\ pc = "raised" => hist.loaded # None
       /\ hist.loaded # None =>
            /\ hist.loaded[1].fresh
            /\ hist.loaded[1].n_training_steps = 0
            /\ hist.loaded[1].n_training_tokens = 0
            /\ \A i \in SAEs :
                 /\ hist.loaded[1].train_contexts[i] = _build_train_context
                 /\ hist.loaded[1].sae_group[i].b_dec_inits = 1

\* Witness of C9: the runner was asked to resume in a directory that holds
\* only another group's files, and the training loop has started.
C9_Witness ==
    /\ entry = "runner" /\ hist.requested /\ ~hist.had_bundle
    /\ Files(disk) # {}
    /\ pc = "while"
    /\ hist.loaded # None

\* C10: language_model_sae_runner called with resume requested while the
\* newest bundle of the run is complete does not abort and does not fall
\* back: the training loop starts from the counters and contexts stored in
\* that bundle.
C10_RunnerResumesFromBundle ==
    (entry = "runner" /\ hist.requested /\ hist.stored # None)
    => /\ pc # "runner" => cfg.resume
       /\ pc = "raised" => hist.loaded # None
       /\ hist.loaded # None =>
            /\ ~hist.loaded[1].fresh
            /\ hist.loaded[1].n_training_steps = hist.stored[1].n_training_steps
            /\ hist.loaded[1].n_training_tokens = hist.stored[1].n_training_tokens
            /\ hist.loaded[1].train_contexts = hist.stored[1].train_contexts

\* C11: the initialisation of train_sae_group_on_language_model (lines
\* 116-154) never fails and is one of two things, whatever the combination of
\* run state and cfg.resume: with a run state, the contexts, both counters
\* and the generator states are those of the run state and the decoder
\* biases are left alone; without one, the contexts are new, the counters
\* are 0 and every decoder bias is initialised once.
C11_InitializingIsAllOrNothing ==
    [][pc = "train" =>
         /\ pc' = "while"
         /\ \/ /\ training_run_state # None
               /\ train_contexts' = training_run_state[1].train_contexts
               /\ n_training_steps' = training_run_state[1].n_training_steps
               /\ n_training_tokens' = training_run_state[1].n_training_tokens
               /\ rng' = [ torch      |-> training_run_state[1].torch_state,
                           torch_cuda |-> training_run_state[1].torch_cuda_state,
                           numpy      |-> training_run_state[1].numpy_state,
                           random     |-> training_run_state[1].random_state ]
               /\ sae_group' = sae_group
            \/ /\ training_run_state = None
               /\ train_contexts' = [i \in SAEs |-> _build_train_context]
               /\ n_training_steps' = 0
               /\ n_training_tokens' = 0
               /\ \A i \in SAEs : sae_group'[i].b_dec_inits
                                    = sae_group[i].b_dec_inits + 1]_vars

\* The integer labels under which this group has files in the directory.
OwnIntLabels(d) == { f.label[2] : f \in { g \in OwnFiles(d) : g.label[1] = "int" } }

\* C12: with max_checkpoints = N configured, the retention pass at the end of
\* every _save_checkpoint leaves at most N labels of this group in the run
\* directory, and what it removed is older (smaller) than everything it kept.
C12_RetentionKeepsNewestN ==
    [][(pc = "retention" /\ hist'.signals = hist.signals
           /\ cfg.max_checkpoints # None)
          => LET before == OwnIntLabels(disk)
                 after  == OwnIntLabels(disk')
             IN /\ Cardinality(after) <= cfg.max_checkpoints[1]
                /\ after \subseteq before
                /\ \A a \in after, b \in before \ after : b < a]_vars

NumUnits  == 2   \* d_sae, the units of the autoencoder
MaxWindow == 2   \* feature_sampling_window in 1..MaxWindow,
                 \* dead_feature_window in 0..MaxWindow
MaxSteps  == 4   \* calls of _train_step

Units == 1..NumUnits

\* The list of line 114.
BDecInitMethods == {"geometric_median", "mean", "zeros"}

StepConfigs ==
    [ b_dec_init_method       : BDecInitMethods \cup {"median"},
      feature_sampling_window : 1..MaxWindow,
      dead_feature_window     : 0..MaxWindow,
      train_batch_size        : 1..MaxBatch ]

\* No check of the configuration at all.
AnyBDecInitMethod(m) == TRUE

\* "if self.b_dec_init_method not in [...]: raise ValueError" (lines 114-117).
\* The check of the two windows (line 157) is commented out.
ValidBDecInitMethod(m) == m \in BDecInitMethods

\* The statistics of a new context (_build_train_context, lines 282-290).
FreshStatistics ==
    [ act_freq_scores              |-> [u \in Units |-> 0],
      n_forward_passes_since_fired |-> [u \in Units |-> 0],
      n_frac_active_tokens         |-> 0 ]

StepHist ==
    [ mask   |-> {},                       \* the mask of the latest step
      read   |-> None,                     \* the denominator of the latest
                                           \* read of ctx.feature_sparsity
      misses |-> [u \in Units |-> 0],      \* batches in a row without firing
      always |-> [u \in Units |-> TRUE] ]  \* fired on every batch so far

StepInit ==
    /\ cfg \in StepConfigs
    /\ pc = "construct"
    /\ train_contexts = <<>>
    /\ n_training_steps = 0
    /\ hist = StepHist
    /\ disk = MissingDisk
    /\ exc = "none"
    /\ entry = "none"
    /\ handlers = FALSE
    /\ training_run_state = None
    /\ n_training_tokens = 0
    /\ sae_group = FreshSAEGroup
    /\ activation_store = 0
    /\ rng = SeededGenerators
    /\ sae_i = 0
    /\ save = None
    /\ checkpoint_paths = <<>>
    /\ returned = FALSE

\* LanguageModelSAERunnerConfig.__post_init__: the checks that can refuse a
\* configuration.
__post_init__ ==
    /\ pc = "construct"
    /\ IF ValidBDecInitMethod(cfg.b_dec_init_method)
       THEN pc' = "build" /\ UNCHANGED exc
       ELSE Raise("ValueError")
    /\ UNCHANGED << cfg, disk, entry, handlers, training_run_state,
                    n_training_steps, n_training_tokens, train_contexts,
                    sae_group, activation_store, rng, sae_i, save,
                    checkpoint_paths, returned, hist >>

\* Line 128 for one autoencoder: the statistics, the optimizer and the
\* scheduler of _build_train_context.
BuildContext ==
    /\ pc = "build"
    /\ train_contexts' = << FreshStatistics @@ _build_train_context >>
    /\ pc' = "step"
    /\ UNCHANGED << cfg, disk, exc, entry, handlers, training_run_state,
                    n_training_steps, n_training_tokens, sae_group,
                    activation_store, rng, sae_i, save, checkpoint_paths,
                    returned, hist >>

\* The mask that reads a unit as dead from its first batch without firing.
ghost_grad_neuron_mask_ge(ctx, dead_feature_window) ==
    { u \in Units : ctx.n_forward_passes_since_fired[u] >= dead_feature_window }

\* Lines 399-401.
ghost_grad_neuron_mask(ctx, dead_feature_window) ==
    { u \in Units : ctx.n_forward_passes_since_fired[u] > dead_feature_window }

\* SAETrainContext.feature_sparsity (lines 37-39) divides by
\* n_frac_active_tokens: a read is recorded by its denominator.
feature_sparsity(ctx) == Some(ctx.n_frac_active_tokens)

\* _train_step with a window reset that also clears the dead-unit counters.
_train_step_resetting_fired(ctx, sampling_window, dead_window, n, batch_size, active) ==
    LET boundary == (n + 1) % sampling_window = 0
        c1 == IF boundary
              THEN [ctx EXCEPT !.act_freq_scores = [u \in Units |-> 0],
                               !.n_forward_passes_since_fired = [u \in Units |-> 0],
                               !.n_frac_active_tokens = 0]
              ELSE ctx
        c2 == [c1 EXCEPT
                 !.n_forward_passes_since_fired =
                     [u \in Units |-> IF u \in active THEN 0 ELSE @[u] + 1],
                 !.act_freq_scores =
                     [u \in Units |-> @[u] + IF u \in active THEN batch_size
                                                            ELSE 0],
                 !.n_frac_active_tokens = @ + batch_size,
                 !.optimizer = @ + 1,
                 !.scheduler = @ + 1]
    IN [ ctx  |-> c2,
         mask |-> ghost_grad_neuron_mask(c1, dead_window),
         read |-> IF boundary THEN feature_sparsity(ctx) ELSE None ]

\* _train_step, lines 372-428, on a batch where the units of active are
\* active (on every token of the batch) and the others on none.
_train_step(ctx, sampling_window, dead_window, n, batch_size, active) ==
    LET boundary == (n + 1) % sampling_window = 0
        c1 == IF boundary
              THEN [ctx EXCEPT !.act_freq_scores = [u \in Units |-> 0],
                               !.n_frac_active_tokens = 0]
              ELSE ctx
        c2 == [c1 EXCEPT
                 !.n_forward_passes_since_fired =
                     [u \in Units |-> IF u \in active THEN 0 ELSE @[u] + 1],
                 !.act_freq_scores =
                     [u \in Units |-> @[u] + IF u \in active THEN batch_size
                                                            ELSE 0],
                 !.n_frac_active_tokens = @ + batch_size,
                 !.optimizer = @ + 1,
                 !.scheduler = @ + 1]
    IN [ ctx  |-> c2,
         mask |-> ghost_grad_neuron_mask(c1, dead_window),
         read |-> IF boundary THEN feature_sparsity(ctx) ELSE None ]

\* One call of _train_step and the "n_training_steps += 1" of line 223.
TrainStep(active) ==
    /\ pc = "step"
    /\ n_training_steps < MaxSteps
    /\ LET r == _train_step(train_contexts[1], cfg.feature_sampling_window,
                            cfg.dead_feature_window, n_training_steps,
                            cfg.train_batch_size, active)
       IN /\ train_contexts' = << r.ctx >>
          /\ hist' = [ mask   |-> r.mask,
                       read   |-> r.read,
                       misses |-> [u \in Units |-> IF u \in active THEN 0
                                                   ELSE hist.misses[u] + 1],
                       always |-> [u \in Units |-> hist.always[u]
                                                    /\ u \in active] ]
    /\ n_training_steps' = n_training_steps + 1
    /\ UNCHANGED << cfg, disk, pc, exc, entry, handlers, training_run_state,
                    n_training_tokens, sae_group, activation_store, rng,
                    sae_i, save, checkpoint_paths, returned >>

\* _save_checkpoint, lines 558-560: the log-sparsity of every context.  The
\* save of the interrupt handler can come at any statement of the loop, the
\* first iteration included; the periodic and the terminal save come after a
\* step.
SaveLogFeatureSparsity ==
    /\ pc = "step"
    /\ hist' = [hist EXCEPT !.read = feature_sparsity(train_contexts[1])]
    /\ pc' = "saved"
    /\ UNCHANGED << cfg, disk, exc, entry, handlers, training_run_state,
                    n_training_steps, n_training_tokens, train_contexts,
                    sae_group, activation_store, rng, sae_i, save,
                    checkpoint_paths, returned >>

StepNext ==
    \/ __post_init__
    \/ BuildContext
    \/ \E active \in SUBSET Units : TrainStep(active)
    \/ SaveLogFeatureSparsity

StepSpec == StepInit /\ [][StepNext]_vars

\* C14: in every call of _train_step, a unit that went more than
\* dead_feature_window batches in a row without firing is in the mask handed
\* to the model, and a unit that fired on every batch so far is not.
C14_DeadUnitsAreMasked ==
    [][n_training_steps' = n_training_steps + 1
          => \A u \in Units :
               /\ hist.misses[u] > cfg.dead_feature_window => u \in hist'.mask
               /\ hist.always[u] => u \notin hist'.mask]_vars

\* Witness of C14: after several batches across a sparsity-window reset, the
\* latest mask held a unit that had stopped firing and left out one that
\* fired every time.
C14_Witness ==
    /\ pc = "step"
    /\ n_training_steps > cfg.feature_sampling_window
    /\ n_training_steps >= cfg.dead_feature_window + 2
    /\ \E u, v \in Units :
         /\ u \in hist.mask
         /\ hist.always[v]
         /\ v \notin hist.mask

\* C15: ctx.feature_sparsity is never read while n_frac_active_tokens is 0,
\* neither at a sparsity-window boundary of _train_step nor by a save.
C15_SparsityDenominatorIsPositive ==
    hist.read # None => hist.read[1] > 0

\* A configuration exists as an object once __post_init__ has returned.
Constructed == pc \in {"build", "step", "saved"}

C16_RandomStateRoundTrip ==
    [][/\ (pc = "save_state" /\ pc' = "retention")
            => LET rs == disk'.files[FilePath(save[1].base_path,
                                              SAVE_POSTFIX_TRAINING_STATE)]
                             .training_run_state[1]
               IN /\ rs.torch_state = rng.torch
                  /\ rs.torch_cuda_state = rng.torch_cuda
                  /\ rs.numpy_state = rng.numpy
                  /\ rs.random_state = rng.random
       /\ (pc = "train" /\ pc' = "while" /\ cfg.resume)
            => /\ rng'.torch = training_run_state[1].torch_state
               /\ rng'.torch_cuda = training_run_state[1].torch_cuda_state
               /\ rng'.numpy = training_run_state[1].numpy_state
               /\ rng'.random = training_run_state[1].random_state]_vars

\* Witness of C16: a process resumed from a bundle that an earlier process
\* wrote after drawing a batch, and its generators are where the earlier
\* process left them.
C16_Witness ==
    /\ pc = "while"
    /\ cfg.resume
    /\ hist.loaded # None
    /\ ~hist.loaded[1].fresh
    /\ hist.stored # None
    /\ training_run_state = hist.stored
    /\ hist.stored[1].numpy_state > 0
    /\ rng.numpy = hist.stored[1].numpy_state
    /\ activation_store = hist.stored[1].numpy_state

\* C18: when a statement of the loop raises an exception other than the
\* interruption and no signal came, that exception is what reaches the
\* caller: the handler of line 228 is not entered, nothing is saved by it,
\* the terminal save is not made and nothing is returned.
C18_OtherExceptionsAbortWithoutSave ==
    (pc = "raised" /\ hist.failure # "none" /\ hist.delivered = 0)
    => /\ exc = hist.failure
       /\ ~hist.interrupted
       /\ SavesOfKind("interrupt") = {}
       /\ SavesOfKind("final") = {}
       /\ ~returned

\* Witness of C18: a training step failed after the batch was counted, and
\* the failure reached the caller.
C18_Witness ==
    /\ pc = "raised"
    /\ hist.failure = "RuntimeError"
    /\ exc = "RuntimeError"
    /\ hist.delivered = 0
    /\ n_training_tokens > 0
    /\ hist.saves = <<>>

\* The weights file of the n-th completed save of this process.
SavedPath(n) == FilePath(get_base_path(hist.saves[n].label), SAVE_POSTFIX_SAE_GROUP)

\* C17: a fresh, undisturbed run with checkpoint_every > 0 ends in DONE and
\* returns, in save order, the path of every periodic checkpoint it saved
\* followed by the path of the terminal checkpoint.
C17_ReturnedPathsAreAllSaves ==
    (Terminal /\ FreshRun /\ Undisturbed /\ cfg.checkpoint_every > 0)
    => /\ returned
       /\ Len(checkpoint_paths) = Len(hist.saves)
       /\ \A n \in 1..Len(hist.saves) : checkpoint_paths[n] = SavedPath(n)
       /\ SavesOfKind("final") = {Len(hist.saves)}

\* C19: the integer labels of the checkpoints one process saved, in the
\* order it saved them, are strictly increasing.
C19_LabelsStrictlyIncrease ==
    \A m, n \in 1..Len(hist.saves) :
        (m < n /\ hist.saves[m].label[1] = "int" /\ hist.saves[n].label[1] = "int")
        => hist.saves[m].label[2] < hist.saves[n].label[2]

\* C21: in every call of _train_step each unit's n_forward_passes_since_fired
\* comes out as the number of batches in a row it has not fired on, and the
\* optimizer and the scheduler advance by one, whether or not the call resets
\* the sparsity window; a call that resets the window leaves in
\* act_freq_scores and n_frac_active_tokens the counts of its own batch only.
C21_WindowResetKeepsDeadCounters ==
    [][n_training_steps' = n_training_steps + 1
          => LET before == train_contexts[1]
                 after  == train_contexts'[1]
             IN /\ \A u \in Units :
                     after.n_forward_passes_since_fired[u] = hist'.misses[u]
                /\ after.optimizer = before.optimizer + 1
                /\ after.scheduler = before.scheduler + 1
                /\ (n_training_steps + 1) % cfg.feature_sampling_window = 0
                     => /\ after.n_frac_active_tokens = cfg.train_batch_size
                        /\ \A u \in Units :
                             after.act_freq_scores[u] =
                                IF hist'.misses[u] = 0
                                THEN cfg.train_batch_size ELSE 0]_vars

\* Witness of C21: the latest call reset a window that had counts in it, and
\* a unit that had stopped firing before the call still has its counter.
C21_Witness ==
    /\ pc = "step"
    /\ n_training_steps >= 2
    /\ n_training_steps % cfg.feature_sampling_window = 0
    /\ train_contexts[1].n_frac_active_tokens = cfg.train_batch_size
    /\ \E u \in Units : train_contexts[1].n_forward_passes_since_fired[u] >= 2

\* C22: the run state that a periodic or terminal save of a fresh run, with
\* no signal delivered and no collaborator failing, has just written is
\* self-consistent: n_training_tokens = n_training_steps * batch_size, and
\* every context has had n_training_steps optimizer updates and scheduler
\* advances.
C22_SavedStateIsSelfConsistent ==
    (/\ pc = "retention"
     /\ save[1].kind \in {"periodic", "final"}
     /\ FreshRun
     /\ Undisturbed)
    => LET rs == disk.files[FilePath(save[1].base_path,
                                     SAVE_POSTFIX_TRAINING_STATE)]
                     .training_run_state[1]
       IN /\ rs.n_training_tokens = rs.n_training_steps * B
          /\ UpdatesAre(rs, rs.n_training_steps)

\* C23: a process resumed from a checkpoint that holds k whole batches (k
\* optimizer updates of every model, k * batch_size tokens), with no signal
\* delivered to it and no collaborator failing, runs every remaining step
\* index once: the update it is about to apply to a model under step index
\* n_training_steps is that model's update number n_training_steps, as in the
\* run that never stopped, so no index is repeated or skipped.
C23_ResumeRepeatsNoStepIndex ==
    (/\ pc = "opt"
     /\ cfg.resume
     /\ hist.loaded # None
     /\ ~hist.loaded[1].fresh
     /\ Undisturbed
     /\ \E k \in 0..(MaxTokens + MaxBatch) :
           /\ hist.loaded[1].n_training_tokens = k * B
           /\ \A i \in SAEs :
                 /\ hist.loaded[1].train_contexts[i].optimizer = k
                 /\ hist.loaded[1].train_contexts[i].scheduler = k)
    => train_contexts[sae_i].optimizer = n_training_steps

\* C24: a fresh run never counts more tokens than its budget T, and never
\* applies more than T // B optimizer updates or scheduler advances to a
\* model, whether or not the batch size B divides T.
C24_LoopRespectsBudgets ==
    FreshRun
    => /\ n_training_tokens <= T
       /\ \A i \in SAEs : /\ train_contexts[i].optimizer <= T \div B
                          /\ train_contexts[i].scheduler <= T \div B

\* C25: one call of train_sae_group_on_language_model completes at most one
\* terminal save and that save is the last one it completes; no save is in
\* progress once the terminal one is complete, except the terminal save
\* itself in its retention pass; the terminal save only runs with
\* n_training_tokens >= the token budget; and a call whose except clause was
\* entered never starts the terminal save.
C25_TerminalSaveIsLastAndOnce ==
    /\ Cardinality(SavesOfKind("final")) <= 1
    /\ \A n \in SavesOfKind("final") : n = Len(hist.saves)
    /\ (pc \in SavePcs /\ save[1].kind = "final")
          => /\ n_training_tokens >= T
             /\ ~hist.interrupted
             /\ pc # "retention" => SavesOfKind("final") = {}
    /\ (pc \in SavePcs /\ save[1].kind # "final") => SavesOfKind("final") = {}
    /\ hist.interrupted => SavesOfKind("final") = {}

\* Witness of C25: the terminal save has written its four files.
C25_Witness ==
    /\ pc = "retention"
    /\ save[1].kind = "final"
    /\ SavesOfKind("final") = {Len(hist.saves)}
    /\ n_training_tokens >= T

\* ------------------------------------------ one save on a used directory
\* A second specification: one call of _save_checkpoint, started on every
\* content the run directory can have when the run that saves begins.
MaxLabel == 2
MaxRetain == 2

\* The four files of a bundle this group wrote earlier under a name.  What
\* they hold is not read by _save_checkpoint or by the retention pass.
OwnBundle(name) ==
    [f \in { FilePath(get_base_path(name), p) : p \in Postfixes }
       |-> Content(<<>>, 0, None)]

\* Merge of the bundles of a set of names.
RECURSIVE Bundles(_)
Bundles(names) ==
    IF names = {} THEN <<>>
    ELSE LET n == CHOOSE x \in names : TRUE
         IN OwnBundle(n) @@ Bundles(names \ {n})

\* The directory f"{checkpoint_path}/{wandb_id}" of lines 128-134 when a run
\* begins: not there yet, or holding complete integer-labelled bundles of the
\* run being resumed or of an earlier run with the same wandb_id, with or
\* without the terminal bundle of that run and the bundle of another group.
StartDirectories ==
    {MissingDisk} \cup
    { [exists |-> TRUE,
       files  |-> Bundles({ IntName(n) : n \in labels }
                            \cup (IF fin THEN {FinalName(MaxLabel)} ELSE {}))
                  @@ (IF other THEN OtherBundle(1) ELSE <<>>)] :
        labels \in SUBSET (0..MaxLabel), fin \in BOOLEAN, other \in BOOLEAN }

SaveConfigs ==
    [ total_training_tokens : {MaxLabel},
      train_batch_size      : {1},
      checkpoint_every      : {1},
      max_checkpoints       : {None} \cup { Some(n) : n \in 0..MaxRetain },
      resume                : BOOLEAN ]

\* The calls of _save_checkpoint the loop makes: periodic (line 212) and
\* interrupt (line 230) under the token count, terminal (line 243) when the
\* budget is used up.  The batch size is 1, so the counters are those after
\* as many batches as the token count; a periodic save runs before the
\* "n_training_steps += 1" of its iteration.
SaveCalls ==
    { [kind |-> "periodic", tokens |-> n] : n \in 1..MaxLabel } \cup
    { [kind |-> "interrupt", tokens |-> n] : n \in 0..MaxLabel } \cup
    { [kind |-> "final", tokens |-> MaxLabel] }

SaveInit ==
    \E call \in SaveCalls :
       /\ cfg \in SaveConfigs
       /\ disk \in StartDirectories
       /\ pc = "save_model"
       /\ save = Some([ kind      |-> call.kind,
                        base_path |-> get_base_path(
                                        IF call.kind = "final"
                                        THEN FinalName(call.tokens)
                                        ELSE IntName(call.tokens)) ])
       /\ exc = "none"
       /\ entry = "direct"
       /\ handlers = TRUE
       /\ training_run_state = None
       /\ n_training_steps = IF call.kind = "periodic" THEN call.tokens - 1
                             ELSE call.tokens
       /\ n_training_tokens = call.tokens
       /\ train_contexts = [i \in SAEs |-> [optimizer |-> call.tokens,
                                            scheduler |-> call.tokens]]
       /\ sae_group = [i \in SAEs |-> [FreshSAEGroup[i] EXCEPT
                                          !.updates = call.tokens]]
       /\ activation_store = call.tokens
       /\ rng = [g \in DOMAIN SeededGenerators |-> call.tokens]
       /\ sae_i = 0
       /\ checkpoint_paths = <<>>
       /\ returned = FALSE
       /\ hist = [FreshHist EXCEPT !.runs = 1,
                                   !.interrupted = (call.kind = "interrupt")]

SaveNext ==
    \/ SaveModel
    \/ SaveSparsity
    \/ SaveStore
    \/ SaveState
    \/ Retention

SaveSpec == SaveInit /\ [][SaveNext]_vars

\* C26: with max_checkpoints >= 1, the retention pass at the end of a
\* _save_checkpoint leaves the four files this save has just written on disk,
\* with what was written in them, whatever the directory held before.
C26_RetentionKeepsTheNewBundle ==
    [][(/\ pc = "retention"
        /\ cfg.max_checkpoints # None
        /\ cfg.max_checkpoints[1] >= 1)
       => /\ Complete(save[1].base_path, disk')
          /\ \A p \in Postfixes :
                disk'.files[FilePath(save[1].base_path, p)]
                   = disk.files[FilePath(save[1].base_path, p)]]_vars

\* Witness of C26: the retention pass has run after a save whose label is
\* smaller than a label an earlier run left, in a directory that then holds
\* more labels than max_checkpoints.
C26_Witness ==
    /\ pc = "raised"
    /\ cfg.max_checkpoints # None
    /\ cfg.max_checkpoints[1] >= 1
    /\ Len(hist.saves) = 1
    /\ hist.saves[1].label[1] = "int"
    /\ \E n \in OwnIntLabels(disk) : n > hist.saves[1].label[2]
    /\ Cardinality(OwnIntLabels(disk)) > cfg.max_checkpoints[1]
    /\ Complete(get_base_path(hist.saves[1].label), disk)

====
